---- MODULE Spec2Model ----
(***************************************************************************)
(* A model of metadata_extractor.py: the GPS coordinate converter, the GPS *)
(* block extraction, the tag classifier (extract_metadata), the report     *)
(* printer and the interactive main flow.                                  *)
(*                                                                         *)
(* Python dicts are modelled as insertion-ordered sequences of             *)
(* [key, val] records with unique keys.  Numbers that the program holds as *)
(* floats are modelled as exact fixed-point integers:                      *)
(*   - a seconds component is an integer number of 1/SecUnit arc-seconds,  *)
(*   - a converted coordinate is an integer number of micro-degrees        *)
(*     (the 6 decimals kept by round(decimal, 6)),                         *)
(*   - an altitude is a rational num/den and its rounded form an integer   *)
(*     number of centimetres (the 2 decimals kept by round(.., 2)).        *)
(* Text is modelled as a sequence of tokens, " " being a blank.            *)
(***************************************************************************)
EXTENDS Integers, Sequences, FiniteSets, TLC

VARIABLES
    pc,          \* position of main()
    image_path,  \* main's image_path (token sequence)
    exif,        \* the raw tag map returned by get_exif_data
    meta,        \* the report returned by extract_metadata
    exc,         \* the place an uncaught exception was raised, "" if none
    out,         \* lines printed to the terminal
    files,       \* JSON report files written
    save,        \* the normalised answer to the save prompt
    call,        \* arguments of a pure-function call under test
    ret          \* its outcome

vars == <<pc, image_path, exif, meta, exc, out, files, save, call, ret>>

----
\* Bounds of the explored inputs
MaxTags == 2       \* longest raw tag map explored
MaxDeg == 2        \* degrees range 0..MaxDeg
MaxMin == 2        \* minutes range 0..MaxMin

----
\* Python dict helpers (insertion ordered)

Keys(d) == {d[i].key : i \in 1..Len(d)}

Has(d, k) == k \in Keys(d)

Get(d, k) == d[CHOOSE i \in 1..Len(d) : d[i].key = k].val

Put(d, k, v) ==
    IF Has(d, k)
    THEN [i \in 1..Len(d) |-> IF d[i].key = k THEN [key |-> k, val |-> v] ELSE d[i]]
    ELSE Append(d, [key |-> k, val |-> v])

----
\* Text helpers

RECURSIVE LStrip(_)
LStrip(s) == IF s # <<>> /\ Head(s) = " " THEN LStrip(Tail(s)) ELSE s

RECURSIVE RStrip(_)
RStrip(s) == IF s # <<>> /\ s[Len(s)] = " " THEN RStrip(SubSeq(s, 1, Len(s) - 1)) ELSE s

\* str.strip()
Strip(s) == RStrip(LStrip(s))

LowerTok(c) == IF c = "Y" THEN "y" ELSE IF c = "N" THEN "n" ELSE c

\* str.lower()
Lower(s) == [i \in 1..Len(s) |-> LowerTok(s[i])]

----
\* Arithmetic

\* variant: truncation to the lower multiple instead of rounding
RoundHalfEven_floor(n, d) == n \div d

\* Python's round(): nearest, ties to even. n may be negative, d > 0.
RoundHalfEven(n, d) ==
    LET q == n \div d
        r == n % d
    IN  IF 2 * r < d THEN q
        ELSE IF 2 * r > d THEN q + 1
        ELSE IF q % 2 = 0 THEN q ELSE q + 1

SecUnit == 10000   \* a seconds component counts 1/10000 arc-seconds

\* one micro-degree (the last digit kept by round(decimal, 6)) in 1/SecUnit
\* arc-seconds
MicroDeg == (3600 * SecUnit) \div 1000000

\* degrees + minutes/60 + seconds/3600, in 1/SecUnit arc-seconds
Decimal(value) == (value[1] * 60 + value[2]) * 60 * SecUnit + value[3]

----
\* convert_gps_coordinate(value, ref)

\* variant: only the southern hemisphere flips the sign
NegRefs_S == {"S"}

NegRefs == {"S", "W"}

\* A triplet with fewer than 3 components makes value[2] raise IndexError.
ConvertRaises(value) == Len(value) < 3

\* The result counts micro-degrees; the float -0.0 that round() gives for a
\* negated zero equals 0.0 and is the value 0 here.
convert_gps_coordinate(value, ref) ==
    LET decimal == Decimal(value)
        signed == IF ref \in NegRefs THEN -decimal ELSE decimal
    IN  RoundHalfEven(signed, MicroDeg)

----
\* extract_gps(exif_data)

\* PIL.ExifTags.GPSTAGS restricted to the ids the program looks at
GPSTAGS(id) ==
    CASE id = 1 -> "GPSLatitudeRef"
      [] id = 2 -> "GPSLatitude"
      [] id = 3 -> "GPSLongitudeRef"
      [] id = 4 -> "GPSLongitude"
      [] id = 5 -> "GPSAltitudeRef"
      [] id = 6 -> "GPSAltitude"

RECURSIVE ResolveGps(_, _)
ResolveGps(gps_info, gps) ==
    IF gps_info = <<>> THEN gps
    ELSE ResolveGps(Tail(gps_info),
                    Put(gps, GPSTAGS(Head(gps_info).key), Head(gps_info).val))

\* truth value of gps.get(k) for a tuple, a string and an altitude value
TruthyTuple(d, k) == Has(d, k) /\ Get(d, k) # <<>>

TruthyStr(d, k) == Has(d, k) /\ Get(d, k) # ""

TruthyAlt(d, k) == Has(d, k) /\ (Get(d, k).floatOk => Get(d, k).num # 0)

NoGps == [raised |-> "", isNone |-> TRUE, d |-> <<>>]

MapsUrl(lat, lon) == <<"https://maps.google.com/?q=", lat, ",", lon>>

extract_gps(exif_data) ==
    IF ~Has(exif_data, "GPSInfo") \/ Get(exif_data, "GPSInfo") = <<>>
    THEN NoGps
    ELSE
    LET gps == ResolveGps(Get(exif_data, "GPSInfo"), <<>>)
        coords == /\ TruthyTuple(gps, "GPSLatitude")
                  /\ TruthyStr(gps, "GPSLatitudeRef")
                  /\ TruthyTuple(gps, "GPSLongitude")
                  /\ TruthyStr(gps, "GPSLongitudeRef")
        hasAlt == TruthyAlt(gps, "GPSAltitude")
    IN  IF coords /\ ( \/ ConvertRaises(Get(gps, "GPSLatitude"))
                       \/ ConvertRaises(Get(gps, "GPSLongitude")) )
        THEN [raised |-> "convert_gps_coordinate", isNone |-> TRUE, d |-> <<>>]
        ELSE IF hasAlt /\ ~Get(gps, "GPSAltitude").floatOk
        THEN [raised |-> "float(alt)", isNone |-> TRUE, d |-> <<>>]
        ELSE
        LET r1 == IF coords
                  THEN LET lat == convert_gps_coordinate(Get(gps, "GPSLatitude"),
                                                         Get(gps, "GPSLatitudeRef"))
                           lon == convert_gps_coordinate(Get(gps, "GPSLongitude"),
                                                         Get(gps, "GPSLongitudeRef"))
                       IN  <<[key |-> "latitude", val |-> lat],
                             [key |-> "longitude", val |-> lon],
                             [key |-> "maps_url", val |-> MapsUrl(lat, lon)]>>
                  ELSE <<>>
            r2 == IF hasAlt
                  THEN Put(r1, "altitude_meters",
                           RoundHalfEven(Get(gps, "GPSAltitude").num * 100,
                                         Get(gps, "GPSAltitude").den))
                  ELSE r1
        IN  [raised |-> "", isNone |-> (r2 = <<>>), d |-> r2]

----
\* The file system and the EXIF decoder (external collaborators)

\* PIL.ExifTags.TAGS restricted to the ids of TagIds
TAGS(id) ==
    CASE id = 271 -> "Make"
      [] id = 272 -> "Model"
      [] id = 306 -> "DateTime"
      [] id = 36867 -> "DateTimeOriginal"
      [] id = 274 -> "Orientation"
      [] id = 37385 -> "Flash"
      [] id = 34853 -> "GPSInfo"
      [] id = 37500 -> "MakerNote"
      [] id = 315 -> "Artist"
      [] id = 33432 -> "Copyright"

\* what Image.open and os.path.getsize find at a path
FileKind(path) ==
    IF path = <<"photo.jpg">> THEN "exif"
    ELSE IF path = <<"plain.jpg">> THEN "noexif"
    ELSE IF path = <<"corrupt.jpg">> THEN "corrupt"
    ELSE IF path = <<"locked.jpg">> THEN "unreadable"
    ELSE "missing"

FileBytes(path) ==
    IF path = <<"photo.jpg">> THEN 2560
    ELSE IF path = <<"plain.jpg">> THEN 1000
    ELSE IF path = <<"corrupt.jpg">> THEN 0
    ELSE 512

----
\* get_exif_data(image_path): the map returned and the message printed

RECURSIVE ResolveTags(_, _)
ResolveTags(raw, exif_data) ==
    IF raw = <<>> THEN exif_data
    ELSE ResolveTags(Tail(raw), Put(exif_data, TAGS(Head(raw).key), Head(raw).val))

get_exif_data(path, raw) ==
    IF FileKind(path) = "exif" THEN ResolveTags(raw, <<>>) ELSE <<>>

get_exif_message(path) ==
    IF FileKind(path) = "missing" THEN <<[kind |-> "error", text |-> "File not found"]>>
    ELSE IF FileKind(path) \in {"corrupt", "unreadable"}
    THEN <<[kind |-> "error", text |-> "Error opening image"]>>
    ELSE <<>>

----
\* extract_metadata(image_path)

device_tags == <<"Make", "Model", "Software", "LensMake", "LensModel">>

datetime_tags == <<"DateTime", "DateTimeOriginal", "DateTimeDigitized">>

image_tags == <<"ExifImageWidth", "ExifImageHeight", "Orientation",
                "Flash", "FocalLength", "ExposureTime", "FNumber",
                "ISOSpeedRatings", "WhiteBalance", "ExposureMode">>

Range(s) == {s[i] : i \in 1..Len(s)}

excluded_tags == {"GPSInfo", "MakerNote", "UserComment"}

\* variant: the device allow-list left out of skip
skip_no_device == Range(datetime_tags) \cup Range(image_tags) \cup excluded_tags

skip == Range(device_tags) \cup Range(datetime_tags) \cup Range(image_tags)
            \cup excluded_tags

\* the value stored for an image-settings tag, and whether storing it raises
ImageValue(val) ==
    IF val.hasFloat /\ val.floatOk
    THEN [isFloat |-> TRUE, num |-> val.num, text |-> <<>>]
    ELSE [isFloat |-> FALSE, num |-> 0, text |-> val.text]

ImageRaises(val) == ~(val.hasFloat /\ val.floatOk) /\ ~val.strOk

\* for tag in device_tags: if tag in exif: result["device"][tag] = str(exif[tag]).strip()
RECURSIVE DeviceLoop(_, _, _)
DeviceLoop(tags, exif_data, bucket) ==
    IF tags = <<>> THEN bucket
    ELSE DeviceLoop(Tail(tags), exif_data,
            IF Has(exif_data, Head(tags))
            THEN Put(bucket, Head(tags), Strip(Get(exif_data, Head(tags)).text))
            ELSE bucket)

RECURSIVE DatetimeLoop(_, _, _)
DatetimeLoop(tags, exif_data, bucket) ==
    IF tags = <<>> THEN bucket
    ELSE DatetimeLoop(Tail(tags), exif_data,
            IF Has(exif_data, Head(tags))
            THEN Put(bucket, Head(tags), Get(exif_data, Head(tags)).text)
            ELSE bucket)

RECURSIVE ImageLoop(_, _, _)
ImageLoop(tags, exif_data, bucket) ==
    IF tags = <<>> THEN bucket
    ELSE ImageLoop(Tail(tags), exif_data,
            IF Has(exif_data, Head(tags))
            THEN Put(bucket, Head(tags), ImageValue(Get(exif_data, Head(tags))))
            ELSE bucket)

\* variant: the items visited last to first
RECURSIVE OtherLoop_rev(_, _)
OtherLoop_rev(items, bucket) ==
    IF items = <<>> THEN bucket
    ELSE LET last == items[Len(items)]
         IN  OtherLoop_rev(SubSeq(items, 1, Len(items) - 1),
                IF last.key \notin skip /\ last.val.strOk
                THEN Put(bucket, last.key, last.val.text)
                ELSE bucket)

\* for tag, val in exif.items(): if tag not in skip: try str(val) except: pass
RECURSIVE OtherLoop(_, _)
OtherLoop(items, bucket) ==
    IF items = <<>> THEN bucket
    ELSE OtherLoop(Tail(items),
            IF Head(items).key \notin skip /\ Head(items).val.strOk
            THEN Put(bucket, Head(items).key, Head(items).val.text)
            ELSE bucket)

StrRaises(tags, exif_data) ==
    \E t \in Range(tags) : Has(exif_data, t) /\ ~Get(exif_data, t).strOk

FileInfo(path) ==
    [path |-> <<"/cwd/">> \o path, filename |-> path,
     size_kb |-> RoundHalfEven(FileBytes(path) * 100, 1024)]

EmptyReport(path) ==
    [file |-> FileInfo(path), gps |-> [isNone |-> TRUE, d |-> <<>>],
     device |-> <<>>, datetime |-> <<>>, image |-> <<>>, other |-> <<>>]

\* the outcome of extract_metadata: the place of the exception it lets
\* through ("" if none) and the report it returns
extract_metadata(path, exif_data) ==
    LET gps == extract_gps(exif_data) IN
    IF FileKind(path) = "missing"
    THEN [raised |-> "os.path.getsize", report |-> EmptyReport(path)]
    ELSE IF exif_data = <<>>
    THEN [raised |-> "", report |-> EmptyReport(path)]
    ELSE IF gps.raised # ""
    THEN [raised |-> gps.raised, report |-> EmptyReport(path)]
    ELSE IF StrRaises(device_tags, exif_data)
    THEN [raised |-> "str(device)", report |-> EmptyReport(path)]
    ELSE IF StrRaises(datetime_tags, exif_data)
    THEN [raised |-> "str(datetime)", report |-> EmptyReport(path)]
    ELSE IF \E t \in Range(image_tags) :
                Has(exif_data, t) /\ ImageRaises(Get(exif_data, t))
    THEN [raised |-> "str(image)", report |-> EmptyReport(path)]
    ELSE [raised |-> "",
          report |-> [file |-> FileInfo(path),
                      gps |-> [isNone |-> gps.isNone, d |-> gps.d],
                      device |-> DeviceLoop(device_tags, exif_data, <<>>),
                      datetime |-> DatetimeLoop(datetime_tags, exif_data, <<>>),
                      image |-> ImageLoop(image_tags, exif_data, <<>>),
                      other |-> OtherLoop(exif_data, <<>>)]]

----
\* print_section(title, data) and print_report(meta): the lines printed

Header(title) == [kind |-> "header", text |-> title]

Line(label, val) == [kind |-> "kv", text |-> label, val |-> val]

KvLines(data) == [i \in 1..Len(data) |-> Line(data[i].key, data[i].val)]

\* variant: no early return for an empty bucket
print_section_always(title, data) == <<Header(title)>> \o KvLines(data)

print_section(title, data) ==
    IF data = <<>> THEN <<>> ELSE <<Header(title)>> \o KvLines(data)

Rule == [kind |-> "rule", text |-> "===="]

\* truth value of meta["gps"]
GpsTruthy(g) == ~g.isNone /\ g.d # <<>>

print_gps(g) ==
    IF GpsTruthy(g)
    THEN <<Header("GPS Location")>>
         \o (IF Has(g.d, "latitude")
             THEN <<Line("Latitude", Get(g.d, "latitude")),
                    Line("Longitude", Get(g.d, "longitude")),
                    Line("Google Maps", Get(g.d, "maps_url"))>>
             ELSE <<>>)
         \o (IF Has(g.d, "altitude_meters")
             THEN <<Line("Altitude (m)", Get(g.d, "altitude_meters"))>>
             ELSE <<>>)
    ELSE <<Header("GPS Location"),
           [kind |-> "notice", text |-> "No GPS data found."]>>

print_report(m) ==
    <<Rule, [kind |-> "title", text |-> "EXIF METADATA REPORT"], Rule>>
    \o <<Header("File Info"),
         Line("Filename", m.file.filename),
         Line("Path", m.file.path),
         Line("Size", m.file.size_kb)>>
    \o print_gps(m.gps)
    \o print_section("Device / Camera", m.device)
    \o print_section("Date & Time", m.datetime)
    \o print_section("Image Settings", m.image)
    \o (IF m.other # <<>> THEN print_section("Other Metadata", m.other) ELSE <<>>)
    \o <<Rule>>

----
\* save_report(meta): the file written

save_report(m) == [name |-> m.file.filename \o <<"_metadata_", "ts", ".json">>,
                   content |-> m]

----
\* Inputs explored

\* values a decoded tag can hold: a number, a text with surrounding blanks,
\* an object whose __float__ raises, an object whose __str__ raises
V_num == [hasFloat |-> TRUE, floatOk |-> TRUE, strOk |-> TRUE, num |-> 2, text |-> <<"2">>]

V_text == [hasFloat |-> FALSE, floatOk |-> FALSE, strOk |-> TRUE, num |-> 0,
           text |-> <<" ", "Canon", " ">>]

V_badfloat == [hasFloat |-> TRUE, floatOk |-> FALSE, strOk |-> TRUE, num |-> 0,
               text |-> <<"1/0">>]

V_badstr == [hasFloat |-> FALSE, floatOk |-> FALSE, strOk |-> FALSE, num |-> 0,
             text |-> <<>>]

Values == {V_num, V_text, V_badfloat, V_badstr}

Alt(n, d) == [floatOk |-> TRUE, num |-> n, den |-> d]

BadAlt == [floatOk |-> FALSE, num |-> 0, den |-> 1]

Entry(k, v) == [key |-> k, val |-> v]

\* GPSInfo sub-mappings used in whole-program runs
GpsSamples ==
    { <<>>,
      <<Entry(1, "N"), Entry(2, <<1, 2, 460000>>), Entry(3, "W"), Entry(4, <<2, 1, 110000>>)>>,
      <<Entry(1, "S"), Entry(2, <<1, 2>>), Entry(3, "E"), Entry(4, <<0, 0, 0>>)>>,
      <<Entry(2, <<1, 2, 460000>>), Entry(4, <<2, 1, 110000>>)>>,
      <<Entry(6, Alt(0, 1))>>,
      <<Entry(6, Alt(1021, 8))>>,
      <<Entry(6, BadAlt)>>,
      <<Entry(1, "S"), Entry(2, <<0, 0, 0>>), Entry(3, "E"), Entry(4, <<0, 0, 17>>),
        Entry(6, Alt(7, 3))>> }

TagIds == {271, 272, 306, 36867, 274, 37385, 34853, 37500, 315, 33432}

ValuesOf(id) == IF id = 34853 THEN GpsSamples ELSE Values

\* the tag maps img._getexif() can return: distinct ids, at most n entries
RECURSIVE RawMaps(_)
RawMaps(n) ==
    IF n = 0 THEN {<<>>}
    ELSE LET prev == RawMaps(n - 1)
         IN  prev \cup
             UNION { UNION { { Append(m, Entry(id, v)) : v \in ValuesOf(id) }
                             : id \in TagIds \ Keys(m) }
                     : m \in {p \in prev : Len(p) = n - 1} }

PathInputs == { <<>>, <<" ">>, <<"photo.jpg">>, <<" ", "photo.jpg", " ">>,
                <<"plain.jpg">>, <<"corrupt.jpg">>, <<"locked.jpg">>, <<"gone.jpg">> }

Answers == { <<"y">>, <<" ", "Y">>, <<"n">>, <<>>, <<"y", "e", "s">> }

----
\* main()

NoMeta == [assigned |-> FALSE]

NoCall == [fn |-> "none"]

NoRet == [done |-> FALSE]

Banner == [kind |-> "banner", text |-> "Metadata Extractor v1.0"]

Init ==
    /\ pc = "start"
    /\ image_path = <<>>
    /\ exif = <<>>
    /\ meta = NoMeta
    /\ exc = ""
    /\ out = <<>>
    /\ files = <<>>
    /\ save = <<>>
    /\ call = NoCall
    /\ ret = NoRet

\* the banner, then sys.argv[1] or the stripped answer to the path prompt
ReadPath ==
    /\ pc = "start"
    /\ \E viaArgv \in BOOLEAN, typed \in PathInputs :
          /\ image_path' = IF viaArgv THEN typed ELSE Strip(typed)
          /\ out' = out \o <<Banner>>
                     \o (IF viaArgv THEN <<>>
                         ELSE <<[kind |-> "prompt", text |-> "Enter path to image file:"]>>)
    /\ pc' = "have_path"
    /\ UNCHANGED <<exif, meta, exc, files, save, call, ret>>

\* if not image_path: print(...); return
NoFile ==
    /\ pc = "have_path"
    /\ image_path = <<>>
    /\ out' = Append(out, [kind |-> "error", text |-> "No file provided. Exiting."])
    /\ pc' = "done"
    /\ UNCHANGED <<image_path, exif, meta, exc, files, save, call, ret>>

\* meta = extract_metadata(image_path)
Extract ==
    /\ pc = "have_path"
    /\ image_path # <<>>
    /\ \E raw \in (IF FileKind(image_path) = "exif" THEN RawMaps(MaxTags) ELSE {<<>>}) :
          LET exif_data == get_exif_data(image_path, raw)
              res == extract_metadata(image_path, exif_data)
          IN  /\ exif' = exif_data
              /\ out' = out \o <<[kind |-> "info", text |-> "Analyzing"]>>
                             \o get_exif_message(image_path)
              /\ IF res.raised # ""
                 THEN /\ exc' = res.raised
                      /\ pc' = "crashed"
                      /\ meta' = meta
                 ELSE /\ exc' = exc
                      /\ pc' = "extracted"
                      /\ meta' = [assigned |-> TRUE, report |-> res.report]
    /\ UNCHANGED <<image_path, files, save, call, ret>>

\* print_report(meta)
PrintReport ==
    /\ pc = "extracted"
    /\ out' = out \o print_report(meta.report)
    /\ pc' = "printed"
    /\ UNCHANGED <<image_path, exif, meta, exc, files, save, call, ret>>

\* save = input("Save report as JSON? (y/n): ").strip().lower()
Prompt ==
    /\ pc = "printed"
    /\ \E typed \in Answers : save' = Lower(Strip(typed))
    /\ out' = Append(out, [kind |-> "prompt", text |-> "Save report as JSON? (y/n): "])
    /\ pc' = "prompted"
    /\ UNCHANGED <<image_path, exif, meta, exc, files, call, ret>>

\* variant: the answer is not looked at
Confirmed_always(answer) == TRUE

\* save == "y"
Confirmed(answer) == answer = <<"y">>

\* if save == "y": save_report(meta)
SaveReport ==
    /\ pc = "prompted"
    /\ Confirmed(save)
    /\ files' = Append(files, save_report(meta.report))
    /\ out' = Append(out, [kind |-> "info", text |-> "Report saved to:"])
    /\ pc' = "done"
    /\ UNCHANGED <<image_path, exif, meta, exc, save, call, ret>>

Decline ==
    /\ pc = "prompted"
    /\ ~Confirmed(save)
    /\ pc' = "done"
    /\ UNCHANGED <<image_path, exif, meta, exc, out, files, save, call, ret>>

Next == ReadPath \/ NoFile \/ Extract \/ PrintReport \/ Prompt \/ SaveReport \/ Decline

Spec == Init /\ [][Next]_vars

----
\* The two pure functions of the GPS path, called on their own

MaxAlt == 2        \* altitude numerators range 0..MaxAlt

AltDens == {1, 3, 8}

SecSamples == {0, 1, 17, 19, 460000}

Triplets == { <<d, m, sec>> : d \in 0..MaxDeg, m \in 0..MaxMin, sec \in SecSamples }

\* a triplet with a negative component
SignedTuples == { <<-1, 2, 17>> }

ShortTuples == { <<1>>, <<1, 2>> }

Refs == {"N", "S", "E", "W", "s"}

Opt(k, S) == {<<>>} \cup { <<Entry(k, v)>> : v \in S }

Alts == { Alt(n, d) : n \in 0..MaxAlt, d \in AltDens } \cup {BadAlt}

GpsInfos ==
    { a \o b \o c \o d \o e :
        a \in Opt(1, {"", "N", "S"}),
        b \in Opt(2, {<<>>, <<0, 0, 0>>, <<1, 2, 460000>>, <<1, 2>>}),
        c \in Opt(3, {"E", "W"}),
        d \in Opt(4, {<<0, 0, 0>>, <<2, 1, 17>>, <<1>>}),
        e \in Opt(6, Alts) }

Idle ==
    /\ pc = "lib"
    /\ image_path = <<>>
    /\ exif = <<>>
    /\ meta = NoMeta
    /\ exc = ""
    /\ out = <<>>
    /\ files = <<>>
    /\ save = <<>>

mainVars == <<pc, image_path, exif, meta, exc, out, files, save>>

InitConv ==
    /\ Idle
    /\ call \in { [fn |-> "convert_gps_coordinate", value |-> v, ref |-> r] :
                    v \in Triplets \cup SignedTuples \cup ShortTuples, r \in Refs }
    /\ ret = NoRet

ConvReturn ==
    /\ call.fn = "convert_gps_coordinate"
    /\ ~ret.done
    /\ ~ConvertRaises(call.value)
    /\ ret' = [done |-> TRUE, raised |-> FALSE,
               val |-> convert_gps_coordinate(call.value, call.ref)]
    /\ UNCHANGED <<mainVars, call>>

ConvRaise ==
    /\ call.fn = "convert_gps_coordinate"
    /\ ~ret.done
    /\ ConvertRaises(call.value)
    /\ ret' = [done |-> TRUE, raised |-> TRUE, val |-> 0]
    /\ UNCHANGED <<mainVars, call>>

NextConv == ConvReturn \/ ConvRaise

SpecConv == InitConv /\ [][NextConv]_vars

InitGps ==
    /\ Idle
    /\ call \in { [fn |-> "extract_gps", exif_data |-> x] :
                    x \in {<<>>} \cup { <<Entry("GPSInfo", g)>> : g \in GpsInfos } }
    /\ ret = NoRet

GpsReturn ==
    /\ call.fn = "extract_gps"
    /\ ~ret.done
    /\ extract_gps(call.exif_data).raised = ""
    /\ ret' = [done |-> TRUE, res |-> extract_gps(call.exif_data)]
    /\ UNCHANGED <<mainVars, call>>

GpsRaise ==
    /\ call.fn = "extract_gps"
    /\ ~ret.done
    /\ extract_gps(call.exif_data).raised # ""
    /\ ret' = [done |-> TRUE, res |-> extract_gps(call.exif_data)]
    /\ UNCHANGED <<mainVars, call>>

NextGps == GpsReturn \/ GpsRaise

SpecGps == InitGps /\ [][NextGps]_vars

----
\* Helpers of the properties

Buckets == {"device", "datetime", "image", "other"}

AllowListed == Range(device_tags) \cup Range(datetime_tags) \cup Range(image_tags)

\* the number of buckets of report r that hold tag t
BucketCount(r, t) == Cardinality({b \in Buckets : Has(r[b], t)})

\* position of key k in dict d, and of x in sequence s
PosOf(d, k) == CHOOSE i \in 1..Len(d) : d[i].key = k

IndexOf(s, x) == CHOOSE i \in 1..Len(s) : s[i] = x

\* the keys of bucket b come in the order they have in dict d
FollowsDict(b, d) ==
    \A i, j \in 1..Len(b) : i < j => PosOf(d, b[i].key) < PosOf(d, b[j].key)

\* the keys of bucket b come in the order they have in list l
FollowsList(b, l) ==
    \A i, j \in 1..Len(b) : i < j => IndexOf(l, b[i].key) < IndexOf(l, b[j].key)

CountLines(o, kind, text) ==
    Cardinality({i \in 1..Len(o) : o[i].kind = kind /\ o[i].text = text})

Returned == pc \in {"extracted", "printed", "prompted", "done"} /\ meta.assigned

Abs(x) == IF x < 0 THEN -x ELSE x

\* r (in units of 1/scale) is a nearest such value to n/d
Nearest(r, n, d) == 2 * Abs(n - r * d) <= d

----
\* C1: in a returned report every raw tag is in exactly one of the buckets
\* device, datetime, image, other, or in none when it is GPSInfo, MakerNote,
\* UserComment or an 'other' tag whose str() fails; buckets hold raw tags only.
C1_ExactlyOneBucket ==
    Returned =>
        /\ \A i \in 1..Len(exif) :
              LET t == exif[i].key
                  n == BucketCount(meta.report, t)
              IN  IF t \in excluded_tags THEN n = 0
                  ELSE IF t \notin AllowListed /\ ~exif[i].val.strOk THEN n = 0
                  ELSE n = 1
        /\ \A b \in Buckets : Keys(meta.report[b]) \subseteq Keys(exif)

C1_Witness ==
    /\ Returned
    /\ Has(exif, "Make") /\ Has(meta.report.device, "Make")
    /\ Has(exif, "Artist") /\ Has(meta.report.other, "Artist")

\* C2: for a path that is not found, unreadable or a corrupt container,
\* extract_metadata does not abort: a message is printed and a report with gps
\* absent and empty device, datetime, image and other blocks is returned.
C2_Claim ==
    ( /\ pc \notin {"start", "have_path", "lib"}
      /\ image_path # <<>>
      /\ FileKind(image_path) \in {"missing", "unreadable", "corrupt"} )
    => /\ pc # "crashed"
       /\ meta.assigned
       /\ meta.report.gps.isNone
       /\ \A b \in Buckets : meta.report[b] = <<>>
       /\ \E i \in 1..Len(out) : out[i].kind = "error"

\* C3: the only exception extract_metadata lets through while it classifies
\* the tags of a readable image is the one of convert_gps_coordinate.
C3_Claim ==
    (pc = "crashed" /\ FileKind(image_path) = "exif") => exc = "convert_gps_coordinate"

\* C4: when GPSInfo holds a numeric GPSAltitude (zero included) and
\* extract_gps returns, the block holds altitude_meters, the value rounded to
\* 2 decimals.
C4_Claim ==
    ( /\ call.fn = "extract_gps" /\ ret.done /\ ret.res.raised = ""
      /\ Has(call.exif_data, "GPSInfo")
      /\ Has(Get(call.exif_data, "GPSInfo"), 6)
      /\ Get(Get(call.exif_data, "GPSInfo"), 6).floatOk )
    => /\ ~ret.res.isNone
       /\ Has(ret.res.d, "altitude_meters")
       /\ LET a == Get(Get(call.exif_data, "GPSInfo"), 6)
          IN  Nearest(Get(ret.res.d, "altitude_meters"), a.num * 100, a.den)

\* the four coordinate entries are there, none of them empty
CoordsResolve(g) ==
    /\ \A k \in {1, 2, 3, 4} : Has(g, k)
    /\ Get(g, 1) # "" /\ Get(g, 3) # ""
    /\ Get(g, 2) # <<>> /\ Get(g, 4) # <<>>

\* a numeric altitude is there
AltResolves(g) == Has(g, 6) /\ Get(g, 6).floatOk

\* C5: extract_gps returns None exactly when neither the coordinates nor the
\* altitude resolve; a returned block is never empty, and latitude, longitude
\* and maps_url are in it together or not at all.
C5_Claim ==
    (call.fn = "extract_gps" /\ ret.done /\ ret.res.raised = "") =>
        LET g == IF Has(call.exif_data, "GPSInfo")
                 THEN Get(call.exif_data, "GPSInfo") ELSE <<>>
        IN  /\ ret.res.isNone <=> ~(CoordsResolve(g) \/ AltResolves(g))
            /\ ~ret.res.isNone => ret.res.d # <<>>
            /\ Has(ret.res.d, "latitude") <=> Has(ret.res.d, "longitude")
            /\ Has(ret.res.d, "latitude") <=> Has(ret.res.d, "maps_url")

\* C6 as claimed: in every bucket the tags come in the order of the raw map.
C6_Claim ==
    Returned => \A b \in Buckets : FollowsDict(meta.report[b], exif)

\* C6: the 'other' bucket keeps the order of the raw map; the device,
\* datetime and image buckets keep the order of their allow-lists.
C6_Amended ==
    Returned =>
        /\ FollowsDict(meta.report.other, exif)
        /\ FollowsList(meta.report.device, device_tags)
        /\ FollowsList(meta.report.datetime, datetime_tags)
        /\ FollowsList(meta.report.image, image_tags)

C6_Witness ==
    /\ Returned
    /\ Len(meta.report.device) = 2
    /\ PosOf(exif, "Model") < PosOf(exif, "Make")

NonNegative(value) == \A i \in 1..Len(value) : value[i] >= 0

\* C7 as claimed: the result is negative iff the reference is S or W.
C7_Claim ==
    (call.fn = "convert_gps_coordinate" /\ ret.done /\ ~ret.raised) =>
        (ret.val < 0 <=> call.ref \in {"S", "W"})

\* C7: for non-negative components the result is negative iff the reference
\* is S or W and the magnitude does not round to zero at 6 decimals.
C7_Amended ==
    ( /\ call.fn = "convert_gps_coordinate" /\ ret.done /\ ~ret.raised
      /\ NonNegative(call.value) ) =>
        (ret.val < 0 <=>
            (call.ref \in {"S", "W"} /\ 2 * Decimal(call.value) > MicroDeg))

C7_Witness ==
    /\ call.fn = "convert_gps_coordinate" /\ ret.done /\ ~ret.raised
    /\ call.ref = "S" /\ call.value = <<0, 0, 1>> /\ ret.val = 0

\* C8: with N or E the result is non-negative and is d + m/60 + s/3600
\* rounded to 6 decimals; with S or W it is the negation of the result the
\* same triplet gets with N or E.
C8_Negation ==
    ( /\ call.fn = "convert_gps_coordinate" /\ ret.done /\ ~ret.raised
      /\ NonNegative(call.value) ) =>
        /\ call.ref \in {"N", "E"} =>
              /\ ret.val >= 0
              /\ Nearest(ret.val, Decimal(call.value), MicroDeg)
        /\ call.ref \in {"S", "W"} =>
              /\ ret.val = -convert_gps_coordinate(call.value, "N")
              /\ ret.val = -convert_gps_coordinate(call.value, "E")
              /\ Nearest(-ret.val, Decimal(call.value), MicroDeg)

C8_Witness ==
    /\ call.fn = "convert_gps_coordinate" /\ ret.done /\ ~ret.raised
    /\ call.ref = "W" /\ call.value = <<1, 2, 460000>> /\ ret.val < 0

\* the save prompt comes after a complete report (its three rules)
ReportBeforePrompt ==
    \E i \in 1..Len(out) :
        /\ out[i].kind = "prompt" /\ out[i].text = "Save report as JSON? (y/n): "
        /\ CountLines(SubSeq(out, 1, i - 1), "rule", "====") = 3

\* C9: a report file is written only for a non-empty path, after
\* extract_metadata returned and print_report printed the report before the
\* prompt, and on the answer y; with no path main prints a message and ends
\* without extracting, printing a report, prompting or writing.
C9_SaveOnlyOnConfirm ==
    /\ files # <<>> =>
          /\ image_path # <<>>
          /\ meta.assigned
          /\ ReportBeforePrompt
          /\ save = <<"y">>
          /\ Len(files) = 1 /\ files[1].content = meta.report
    /\ (image_path = <<>> /\ pc \notin {"start", "have_path", "lib"}) =>
          /\ pc = "done"
          /\ ~meta.assigned
          /\ files = <<>>
          /\ CountLines(out, "error", "No file provided. Exiting.") = 1
          /\ \A i \in 1..Len(out) : out[i].kind \notin {"rule", "header", "info"}
          /\ CountLines(out, "prompt", "Save report as JSON? (y/n): ") = 0

C9_Witness == pc = "done" /\ files # <<>> /\ save = <<"y">>

SectionOf(b) ==
    CASE b = "device" -> "Device / Camera"
      [] b = "datetime" -> "Date & Time"
      [] b = "image" -> "Image Settings"
      [] b = "other" -> "Other Metadata"

\* C10: once the report is printed, each of the four sections is there
\* exactly when its bucket is non-empty, there is exactly one GPS Location
\* section, and the "No GPS data found." notice is there exactly when the GPS
\* block is absent.
C10_Sections ==
    (pc \in {"printed", "prompted", "done"} /\ meta.assigned) =>
        /\ \A b \in Buckets :
              CountLines(out, "header", SectionOf(b)) =
                  (IF meta.report[b] # <<>> THEN 1 ELSE 0)
        /\ CountLines(out, "header", "GPS Location") = 1
        /\ CountLines(out, "notice", "No GPS data found.") =
              (IF meta.report.gps.isNone THEN 1 ELSE 0)

C10_Witness ==
    /\ pc = "printed" /\ meta.assigned
    /\ meta.report.device # <<>> /\ meta.report.other = <<>>
    /\ ~meta.report.gps.isNone

====
